---- MODULE Spec2Model ----
(***************************************************************************)
(* aqgo: the IOT-CO-1000 poller.  main() polls the sensor over a serial    *)
(* port (AnalyzeAirQuality), hands every parsed AirQualityMeasurement over *)
(* the channel ch to the goroutine submitMetricsToCloudWatch, which        *)
(* classifies it against warmUpDuration and calls PutMetricData.           *)
(*                                                                         *)
(* Conventions of the model:                                               *)
(*  - a byte is a one-character string; CR, LF and NUL stand for \r, \n    *)
(*    and \x00; a Go string or []byte is a sequence of bytes;              *)
(*  - a time.Duration is counted in milliseconds (the inputs of the model  *)
(*    produce no unit below "ms");                                         *)
(*  - a float64 metric value is counted in thousandths, so float64(i) is   *)
(*    i * 1000 and Duration.Seconds() is the duration in milliseconds.     *)
(*  - the repository holds two versions of submitMetricsToCloudWatch       *)
(*    (src/main/main.go, and the main package with metricDataInput); the   *)
(*    variable variant says which one the build holds;                     *)
(*  - AirQualityMeasurement.MeasurementTime is not carried in the record:  *)
(*    no statement of main or submitMetricsToCloudWatch reads it; the      *)
(*    moment time.Now() is called is kept in the variable events.          *)
(***************************************************************************)
EXTENDS Integers, Sequences, FiniteSets, TLC

\* ------------------------------------------------------------------ bytes

CR == "CR"
LF == "LF"
NUL == "NUL"

Digits == <<"0", "1", "2", "3", "4", "5", "6", "7", "8", "9">>

IsDigit(c) == \E i \in 1..10 : Digits[i] = c

DigitVal(c) == (CHOOSE i \in 1..10 : Digits[i] = c) - 1

RECURSIVE Pow2(_)
Pow2(n) == IF n = 0 THEN 1 ELSE 2 * Pow2(n - 1)

\* the largest and the smallest value of a signed integer of bitSize bits,
\* 2^(bitSize-1) - 1 and -2^(bitSize-1), computed without exceeding them
MaxIntOf(bitSize) == 2 * (Pow2(bitSize - 2) - 1) + 1

MinIntOf(bitSize) == (0 - MaxIntOf(bitSize)) - 1

\* the decimal value of a sequence of digits
RECURSIVE DecValue(_)
DecValue(ds) ==
    IF ds = <<>> THEN 0
    ELSE 10 * DecValue(SubSeq(ds, 1, Len(ds) - 1)) + DigitVal(ds[Len(ds)])

AllDigits(s) == \A i \in 1..Len(s) : IsDigit(s[i])

\* strconv.ParseInt(s, 10, bitSize): an optional sign, then one or more
\* decimal digits, and the value must fit bitSize bits.
ParseInt(s, bitSize) ==
    LET signed == s # <<>> /\ s[1] \in {"+", "-"}
        ds == IF signed THEN Tail(s) ELSE s
        mag == DecValue(ds)
        v == IF signed /\ s[1] = "-" THEN 0 - mag ELSE mag
    IN  IF ds = <<>> \/ ~AllDigits(ds)
        THEN [err |-> TRUE, val |-> 0]
        ELSE IF v < MinIntOf(bitSize) \/ v > MaxIntOf(bitSize)
        THEN [err |-> TRUE, val |-> 0]
        ELSE [err |-> FALSE, val |-> v]

\* fmt.Sprintf("%d", n)
RECURSIVE NatToBytes(_)
NatToBytes(n) ==
    IF n < 10 THEN <<Digits[n + 1]>>
    ELSE Append(NatToBytes(n \div 10), Digits[(n % 10) + 1])

IntToBytes(n) == IF n < 0 THEN <<"-">> \o NatToBytes(0 - n) ELSE NatToBytes(n)

MinOf(S) == CHOOSE x \in S : \A y \in S : x <= y

MaxOf(S) == CHOOSE x \in S : \A y \in S : y <= x

\* the positions where the separator ", " starts in s (two occurrences
\* cannot overlap: the second byte of one is not the first of another)
SepStarts(s) == {i \in 1..(Len(s) - 1) : s[i] = "," /\ s[i + 1] = " "}

\* the k-th smallest element of S
Nth(S, k) == CHOOSE x \in S : Cardinality({y \in S : y < x}) = k - 1

\* strings.Split(s, ", "): the stretches of s between the separators, one
\* more than there are separators
Split(s) ==
    LET seps == SepStarts(s)
        n == Cardinality(seps)
        from(k) == IF k = 1 THEN 1 ELSE Nth(seps, k - 1) + 2
        to(k) == IF k = n + 1 THEN Len(s) ELSE Nth(seps, k) - 1
    IN  [k \in 1..(n + 1) |-> SubSeq(s, from(k), to(k))]

\* Cutset without the NUL bytes of the buffer's unused tail
CutsetWithoutNUL == {" ", CR, LF}

\* strings.Trim(s, " \r\n\x00"): the cutset is removed from both ends
Cutset == {" ", CR, LF, NUL}

Trim(s) ==
    LET keep == {i \in 1..Len(s) : s[i] \notin Cutset}
    IN  IF keep = {} THEN <<>> ELSE SubSeq(s, MinOf(keep), MaxOf(keep))

\* ------------------------------------------------------- time.ParseDuration

\* milliseconds per unit; the units below a millisecond are not modelled
UnitNames == {<<"m", "s">>, <<"s">>, <<"m">>, <<"h">>}

UnitMs(u) ==
    IF u = <<"m", "s">> THEN 1
    ELSE IF u = <<"s">> THEN 1000
    ELSE IF u = <<"m">> THEN 60000
    ELSE 3600000

\* the length of the longest prefix of s from position i made of digits
DigitRun(s, i) ==
    LET stop == {j \in i..Len(s) : ~IsDigit(s[j])}
    IN  IF stop = {} THEN Len(s) - i + 1 ELSE MinOf(stop) - i

\* the length of the unit from position i: up to the next digit or "."
UnitRun(s, i) ==
    LET stop == {j \in i..Len(s) : IsDigit(s[j]) \/ s[j] = "."}
    IN  IF stop = {} THEN Len(s) - i + 1 ELSE MinOf(stop) - i

\* the loop of time.ParseDuration over the unsigned part: number, unit, ...
RECURSIVE DurationTerms(_, _, _)
DurationTerms(s, i, acc) ==
    IF i > Len(s) THEN [err |-> FALSE, val |-> acc]
    ELSE LET n == DigitRun(s, i)
             u == UnitRun(s, i + n)
             unit == SubSeq(s, i + n, i + n + u - 1)
         IN  IF n = 0 \/ u = 0 \/ unit \notin UnitNames
             THEN [err |-> TRUE, val |-> 0]
             ELSE DurationTerms(s, i + n + u,
                      acc + DecValue(SubSeq(s, i, i + n - 1)) * UnitMs(unit))

\* time.ParseDuration(s): [-+]?([0-9]+unit)+, or "0"
ParseDuration(s) ==
    LET signed == s # <<>> /\ s[1] \in {"+", "-"}
        body == IF signed THEN Tail(s) ELSE s
        r == DurationTerms(body, 1, 0)
    IN  IF body = <<"0">> THEN [err |-> FALSE, val |-> 0]
        ELSE IF body = <<>> \/ r.err THEN [err |-> TRUE, val |-> 0]
        ELSE IF signed /\ s[1] = "-" THEN [err |-> FALSE, val |-> 0 - r.val]
        ELSE r

\* ------------------------------------------- the parser of AnalyzeAirQuality

\* the error values AnalyzeAirQuality and its callees return
ErrWrite == "serial write error"
ErrWriteZero == "failed to write to IOTCO1000 serial device"
ErrRead == "serial read error"
ErrCO == "failed converting CO concentration"
ErrTemperature == "failed converting temperature"
ErrHumidity == "failed converting relative humidity"
ErrDaysUp == "failed converting days up"
ErrHoursUp == "failed converting hours up"
ErrDuration == "failed parsing duration string"

IOErrors == {ErrWrite, ErrWriteZero, ErrRead}

ParseErrors == {ErrCO, ErrTemperature, ErrHumidity, ErrDaysUp, ErrHoursUp, ErrDuration}

NoMeasurement == [nil |-> TRUE]

\* ConvertFields that looks at the temperature before the CO concentration
ConvertFieldsTemperatureFirst(d) ==
    LET serialNumber == d[1]
        COInt == ParseInt(d[2], 32)
        temperatureCInt == ParseInt(d[3], 8)
        relativeHumidityInt == ParseInt(d[4], 8)
        daysUpInt == ParseInt(d[8], 16)
        hoursUpInt == ParseInt(d[9], 8)
        uptimeDurationStr ==
            IntToBytes(daysUpInt.val * 24 + hoursUpInt.val) \o <<"h">>
                \o d[10] \o <<"m">> \o Trim(d[11]) \o <<"s">>
        uptime == ParseDuration(uptimeDurationStr)
        fail(e) == [kind |-> "err", err |-> e, aq |-> NoMeasurement]
    IN  IF temperatureCInt.err THEN fail(ErrTemperature)
        ELSE IF COInt.err THEN fail(ErrCO)
        ELSE IF relativeHumidityInt.err THEN fail(ErrHumidity)
        ELSE IF daysUpInt.err THEN fail(ErrDaysUp)
        ELSE IF hoursUpInt.err THEN fail(ErrHoursUp)
        ELSE IF uptime.err THEN fail(ErrDuration)
        ELSE [kind |-> "ok", err |-> "nil",
              aq |-> [SensorSerialNumber |-> serialNumber,
                      COConcentrationPPB |-> COInt.val,
                      TemperatureC |-> temperatureCInt.val,
                      RelativeHumidity |-> relativeHumidityInt.val,
                      Uptime |-> uptime.val]]

\* the conversions of the fields, in the order the code makes them; d has
\* at least 11 fields (Go indexes from 0, TLA+ from 1)
ConvertFields(d) ==
    LET serialNumber == d[1]
        COInt == ParseInt(d[2], 32)
        temperatureCInt == ParseInt(d[3], 8)
        relativeHumidityInt == ParseInt(d[4], 8)
        daysUpInt == ParseInt(d[8], 16)
        hoursUpInt == ParseInt(d[9], 8)
        uptimeDurationStr ==
            IntToBytes(daysUpInt.val * 24 + hoursUpInt.val) \o <<"h">>
                \o d[10] \o <<"m">> \o Trim(d[11]) \o <<"s">>
        uptime == ParseDuration(uptimeDurationStr)
        fail(e) == [kind |-> "err", err |-> e, aq |-> NoMeasurement]
    IN  IF COInt.err THEN fail(ErrCO)
        ELSE IF temperatureCInt.err THEN fail(ErrTemperature)
        ELSE IF relativeHumidityInt.err THEN fail(ErrHumidity)
        ELSE IF daysUpInt.err THEN fail(ErrDaysUp)
        ELSE IF hoursUpInt.err THEN fail(ErrHoursUp)
        ELSE IF uptime.err THEN fail(ErrDuration)
        ELSE [kind |-> "ok", err |-> "nil",
              aq |-> [SensorSerialNumber |-> serialNumber,
                      COConcentrationPPB |-> COInt.val,
                      TemperatureC |-> temperatureCInt.val,
                      RelativeHumidity |-> relativeHumidityInt.val,
                      Uptime |-> uptime.val]]

\* lines 82-119: the whole buffer is split, and d[0] .. d[10] are indexed
\* without a length check: with fewer than 11 fields the index expression
\* panics (runtime error: index out of range)
ParseBuffer(buf) ==
    LET d == Split(buf)
    IN  IF Len(d) < 11
        THEN [kind |-> "panic", err |-> "index out of range", aq |-> NoMeasurement]
        ELSE ConvertFields(d)

\* ------------------------------------------------------ the sensor's replies

\* what the sensor puts on the wire: the fields joined by ", ", then \r\n
RECURSIVE JoinFields(_)
JoinFields(fs) ==
    IF Len(fs) = 1 THEN fs[1]
    ELSE fs[1] \o <<",", " ">> \o JoinFields(Tail(fs))

Reply(fs) == JoinFields(fs) \o <<CR, LF>>

Filler(n) == [i \in 1..n |-> "x"]

\* uptime 1h59m59s: one second short of warmUpDuration
FieldsCold ==
    <<<<"A">>, <<"-", "5">>, <<"2", "1">>, <<"4", "0">>, <<"x">>, <<"x">>,
      <<"x">>, <<"0">>, <<"1">>, <<"5", "9">>, <<"5", "9">>>>

ReplyCold == Reply(FieldsCold)

\* uptime 2h0m0s: exactly warmUpDuration
FieldsWarm ==
    <<<<"A">>, <<"-", "5">>, <<"2", "1">>, <<"4", "0">>, <<"x">>, <<"x">>,
      <<"x">>, <<"0">>, <<"2">>, <<"0">>, <<"0">>>>

ReplyWarm == Reply(FieldsWarm)

\* uptime 24h30m15s, and other readings in every used field
FieldsHot ==
    <<<<"B">>, <<"1", "2">>, <<"2", "2">>, <<"4", "1">>, <<"y">>, <<"y">>,
      <<"y">>, <<"1">>, <<"0">>, <<"3", "0">>, <<"1", "5">>>>

ReplyHot == Reply(FieldsHot)

\* a CO field that is not a number
FieldsBadCO ==
    <<<<"A">>, <<"x">>, <<"2", "1">>, <<"4", "0">>, <<"x">>, <<"x">>,
      <<"x">>, <<"0">>, <<"1">>, <<"5", "9">>, <<"5", "9">>>>

ReplyBadCO == Reply(FieldsBadCO)

\* a reply cut short: three fields
FieldsShort == <<<<"A">>, <<"-", "5">>, <<"2", "1">>>>

ReplyShort == Reply(FieldsShort)

BufSize == 256

\* a reply longer than the read buffer
FieldsLong == <<<<"A">>, Filler(BufSize)>>

ReplyLong == Reply(FieldsLong)

\* the replies of the sensor that the acquisition loop is run against, by
\* their fields
ReplyFields == {FieldsCold, FieldsWarm, FieldsHot, FieldsBadCO, FieldsShort, FieldsLong}

Replies == {Reply(f) : f \in ReplyFields}

\* ------------------------------------------------------------------ bounds

\* polls of the acquisition loop that are followed
MaxPolls == 3

\* the size of a partial chunk a Read may return
ChunkLen == 4

\* ------------------------------------------------------------------- state

VARIABLES
    variant,        \* which submitMetricsToCloudWatch the build holds
    running,        \* the process has not exited
    exitCause,      \* why it exited: "none", "fatal" (logger.Fatal), "panic"
    acqPc,          \* main goroutine: the statement it is at
    polls,          \* calls of AnalyzeAirQuality so far
    wire,           \* bytes the sensor has sent and Read has not yet returned
    sent,           \* history: the fields of the reply to the last stimulus
    events,         \* history: what the poll did up to its first Read, in order
    byteBuffer,     \* AnalyzeAirQuality's byteBuffer
    totalBytesRead, \* AnalyzeAirQuality's totalBytesRead
    aq,             \* main's aq
    err,            \* main's err
    subPc,          \* submitMetricsToCloudWatch: the statement it is at
    subAq,          \* submitMetricsToCloudWatch's aq
    params,         \* the PutMetricDataInput built for subAq
    loggedAboutUptime,        \* src/main/main.go
    loggedSensorNotWarmedUp,  \* the variant with the indicator metric
    loggedSensorActive,       \* the variant with the indicator metric
    parsed,         \* history: the measurements AnalyzeAirQuality returned
    consumed,       \* history: the measurements received from ch
    calls,          \* history: the PutMetricData calls made
    logged          \* history: lines written to logger, counted by kind

vars == <<variant, running, exitCause, acqPc, polls, wire, sent, events, byteBuffer,
          totalBytesRead, aq, err, subPc, subAq, params, loggedAboutUptime,
          loggedSensorNotWarmedUp, loggedSensorActive, parsed, consumed,
          calls, logged>>

acqVars == <<polls, wire, sent, events, byteBuffer, totalBytesRead, aq, err, parsed>>

subVars == <<subAq, params, loggedAboutUptime, loggedSensorNotWarmedUp,
             loggedSensorActive, consumed, calls>>

\* make([]byte, 256)
ZeroBuffer == [i \in 1..BufSize |-> NUL]

NoParams == [nil |-> TRUE]

\* "canonical": src/main/main.go; "indicator": the second main package,
\* which adds the SensorWarmedUp metric
Variants == {"canonical", "indicator"}

Init ==
    /\ variant \in Variants
    /\ running = TRUE
    /\ exitCause = "none"
    /\ acqPc = "open"
    /\ polls = 0
    /\ wire = <<>>
    /\ sent = <<>>
    /\ events = <<>>
    /\ byteBuffer = ZeroBuffer
    /\ totalBytesRead = 0
    /\ aq = NoMeasurement
    /\ err = "nil"
    /\ subPc = "unstarted"
    /\ subAq = NoMeasurement
    /\ params = NoParams
    /\ loggedAboutUptime = FALSE
    /\ loggedSensorNotWarmedUp = FALSE
    /\ loggedSensorActive = FALSE
    /\ parsed = <<>>
    /\ consumed = <<>>
    /\ calls = <<>>
    /\ logged = [skipping |-> 0, active |-> 0, submit |-> 0, io |-> 0, parse |-> 0,
                 fatal |-> 0]

\* logger.Println / logger.Printf / logger.Fatal: one more line of the kind
LogLine(kind) == [logged EXCEPT ![kind] = @ + 1]

\* a panic, or os.Exit from logger.Fatal: every goroutine stops
Exit(cause) ==
    /\ running' = FALSE
    /\ exitCause' = cause

StayUp == UNCHANGED <<running, exitCause>>

\* ------------------------------------------------- main: the acquisition loop

\* main, lines 44-51: iotco1000.New opens the port; on an error logger.Fatal
\* ends the process, else the submission goroutine is started
OpenPort ==
    /\ running /\ acqPc = "open"
    /\ \E ok \in BOOLEAN :
        IF ok
        THEN /\ acqPc' = "write"
             /\ subPc' = "recv"
             /\ StayUp
             /\ UNCHANGED logged
        ELSE /\ Exit("fatal")
             /\ logged' = LogLine("fatal")
             /\ UNCHANGED <<acqPc, subPc>>
    /\ UNCHANGED <<variant, acqVars, subVars>>

\* AnalyzeAirQuality, lines 55-60: the stimulus write.  The port reports an
\* error, zero bytes written, or success; on success the sensor answers.
WriteStimulus ==
    /\ running /\ acqPc = "write" /\ polls < MaxPolls
    /\ polls' = polls + 1
    /\ events' = <<"write">>
    /\ \E outcome \in {"ok", "err", "zero"} :
        IF outcome = "ok"
        THEN /\ \E f \in ReplyFields :
                /\ wire' = wire \o Reply(f)
                /\ sent' = f
             /\ acqPc' = "settle"
             /\ aq' = NoMeasurement
             /\ err' = "nil"
        ELSE /\ aq' = NoMeasurement
             /\ err' = (IF outcome = "err" THEN ErrWrite ELSE ErrWriteZero)
             /\ acqPc' = "ret"
             /\ sent' = <<>>
             /\ UNCHANGED wire
    /\ StayUp
    /\ UNCHANGED <<variant, byteBuffer, totalBytesRead, parsed, subPc, subVars, logged>>

\* Settle for a function that takes measurementTime before its sleep
SettleAfterNow ==
    /\ running /\ acqPc = "settle"
    /\ acqPc' = "alloc"
    /\ events' = events \o <<"now", "settle">>
    /\ StayUp
    /\ UNCHANGED <<variant, polls, wire, sent, byteBuffer, totalBytesRead, aq, err,
                   parsed, subPc, subVars, logged>>

\* AnalyzeAirQuality, line 63: time.Sleep(1000 * time.Millisecond)
Settle ==
    /\ running /\ acqPc = "settle"
    /\ acqPc' = "alloc"
    /\ events' = Append(events, "settle")
    /\ StayUp
    /\ UNCHANGED <<variant, polls, wire, sent, byteBuffer, totalBytesRead, aq, err,
                   parsed, subPc, subVars, logged>>

\* AnalyzeAirQuality, lines 65-67: the buffer, measurementTime := time.Now(),
\* the count
Allocate ==
    /\ running /\ acqPc = "alloc"
    /\ byteBuffer' = ZeroBuffer
    /\ events' = Append(events, "now")
    /\ totalBytesRead' = 0
    /\ acqPc' = "read"
    /\ StayUp
    /\ UNCHANGED <<variant, polls, wire, sent, aq, err, parsed, subPc, subVars, logged>>

\* the chunk sizes a Read of the port may return: nothing (the read timeout),
\* a partial chunk (followed here as the first chunk of a reply only), or
\* all that is waiting, up to len(byteBuffer)
Min(a, b) == IF a < b THEN a ELSE b

ChunkSizes ==
    {0, Min(Len(wire), BufSize)}
        \cup (IF totalBytesRead = 0 THEN {Min(ChunkLen, Min(Len(wire), BufSize))} ELSE {})

\* SerialPort.Read(byteBuffer) with n bytes: they land at byteBuffer[0:n]
ReadInto(buf, n) == [i \in 1..BufSize |-> IF i <= n THEN wire[i] ELSE buf[i]]

\* AnalyzeAirQuality, lines 69-79: one Read and the tests that follow it.
\* byteBuffer[totalBytesRead-1] is an index expression: beyond the buffer it
\* panics.  A Read that fails returns no bytes, and the port drops what was
\* waiting.
ReadChunk ==
    /\ running /\ acqPc = "read"
    /\ \E n \in ChunkSizes, failed \in BOOLEAN :
        LET buf == ReadInto(byteBuffer, n)
            total == totalBytesRead + n
        IN  /\ failed => n = 0
            /\ events' = (IF events[Len(events)] = "read" THEN events
                          ELSE Append(events, "read"))
            /\ sent' = (IF failed THEN <<>> ELSE sent)
            /\ byteBuffer' = (IF failed THEN ZeroBuffer ELSE buf)
            /\ totalBytesRead' = (IF failed THEN 0 ELSE total)
            /\ wire' = (IF failed THEN <<>> ELSE SubSeq(wire, n + 1, Len(wire)))
            /\ IF failed
               THEN /\ aq' = NoMeasurement
                    /\ err' = ErrRead
                    /\ acqPc' = "ret"
                    /\ StayUp
               ELSE IF total = 0
               THEN /\ acqPc' = "backoff"
                    /\ StayUp
                    /\ UNCHANGED <<aq, err>>
               ELSE IF total > BufSize
               THEN /\ Exit("panic")
                    /\ UNCHANGED <<acqPc, aq, err>>
               ELSE IF buf[total] = LF
               THEN /\ acqPc' = "parse"
                    /\ StayUp
                    /\ UNCHANGED <<aq, err>>
               ELSE /\ acqPc' = "backoff"
                    /\ StayUp
                    /\ UNCHANGED <<aq, err>>
    /\ UNCHANGED <<variant, polls, parsed, subPc, subVars, logged>>

\* AnalyzeAirQuality, line 80: time.Sleep(50 * time.Millisecond)
Backoff ==
    /\ running /\ acqPc = "backoff"
    /\ acqPc' = "read"
    /\ StayUp
    /\ UNCHANGED <<variant, acqVars, subPc, subVars, logged>>

\* AnalyzeAirQuality, lines 82-119: split, convert, return.  The buffer and
\* the count are locals of the call: they are dropped on return.
ParseReply ==
    /\ running /\ acqPc = "parse"
    /\ LET r == ParseBuffer(byteBuffer)
       IN  IF r.kind = "panic"
           THEN /\ Exit("panic")
                /\ UNCHANGED <<acqPc, aq, err, parsed, byteBuffer, totalBytesRead>>
           ELSE /\ aq' = r.aq
                /\ err' = r.err
                /\ parsed' = (IF r.kind = "ok" THEN Append(parsed, r.aq) ELSE parsed)
                /\ byteBuffer' = ZeroBuffer
                /\ totalBytesRead' = 0
                /\ acqPc' = "ret"
                /\ StayUp
    /\ UNCHANGED <<variant, polls, wire, sent, events, subPc, subVars, logged>>

\* CheckResult without the else: what AnalyzeAirQuality returned is sent also
\* when it returned an error
CheckResultSendsAlways ==
    /\ running /\ acqPc = "ret"
    /\ logged' = (IF err = "nil" THEN logged
                  ELSE LogLine(IF err \in IOErrors THEN "io" ELSE "parse"))
    /\ acqPc' = "send"
    /\ StayUp
    /\ UNCHANGED <<variant, acqVars, subPc, subVars>>

\* CheckResult with logger.Fatal in place of logger.Println for the errors of
\* the serial port
CheckResultFatal ==
    /\ running /\ acqPc = "ret"
    /\ IF err \in IOErrors
       THEN /\ logged' = LogLine("io")
            /\ Exit("fatal")
            /\ UNCHANGED acqPc
       ELSE IF err # "nil"
       THEN /\ logged' = LogLine("parse")
            /\ acqPc' = "sleep"
            /\ StayUp
       ELSE /\ acqPc' = "send"
            /\ StayUp
            /\ UNCHANGED logged
    /\ UNCHANGED <<variant, acqVars, subPc, subVars>>

\* CheckResult that ends the process on a parse error
CheckResultParseFatal ==
    /\ running /\ acqPc = "ret"
    /\ IF err \in ParseErrors
       THEN /\ logged' = LogLine("parse")
            /\ Exit("fatal")
            /\ UNCHANGED acqPc
       ELSE IF err # "nil"
       THEN /\ logged' = LogLine("io")
            /\ acqPc' = "sleep"
            /\ StayUp
       ELSE /\ acqPc' = "send"
            /\ StayUp
            /\ UNCHANGED logged
    /\ UNCHANGED <<variant, acqVars, subPc, subVars>>

\* main, lines 54-58: a returned error is logged (the line is the error's
\* text) and the loop goes on to its sleep; a measurement goes to the
\* channel send
CheckResult ==
    /\ running /\ acqPc = "ret"
    /\ IF err # "nil"
       THEN /\ logged' = LogLine(IF err \in IOErrors THEN "io" ELSE "parse")
            /\ acqPc' = "sleep"
       ELSE /\ acqPc' = "send"
            /\ UNCHANGED logged
    /\ StayUp
    /\ UNCHANGED <<variant, acqVars, subPc, subVars>>

\* ChanHandoff on a channel that takes the value whatever the receiver does
ChanHandoffNoWait ==
    /\ running /\ acqPc = "send" /\ subPc # "unstarted"
    /\ subAq' = aq
    /\ consumed' = Append(consumed, aq)
    /\ acqPc' = "sleep"
    /\ subPc' = "classify"
    /\ StayUp
    /\ UNCHANGED <<variant, acqVars, params, loggedAboutUptime,
                   loggedSensorNotWarmedUp, loggedSensorActive, calls, logged>>

\* main line 57 with submitMetricsToCloudWatch's receive (aq := <-ch): ch is
\* made without a capacity, so the send and the receive happen together,
\* when the sender is at the send and the receiver at the receive
ChanHandoff ==
    /\ running /\ acqPc = "send" /\ subPc = "recv"
    /\ subAq' = aq
    /\ consumed' = Append(consumed, aq)
    /\ acqPc' = "sleep"
    /\ subPc' = "classify"
    /\ StayUp
    /\ UNCHANGED <<variant, acqVars, params, loggedAboutUptime,
                   loggedSensorNotWarmedUp, loggedSensorActive, calls, logged>>

\* main, line 59: time.Sleep(PollInterval)
PollSleep ==
    /\ running /\ acqPc = "sleep"
    /\ acqPc' = "write"
    /\ StayUp
    /\ UNCHANGED <<variant, acqVars, subPc, subVars, logged>>

\* ------------------------------------------ submitMetricsToCloudWatch

\* time.Hour * 2, in milliseconds
warmUpDuration == 2 * 3600000

\* NotWarmedUp with <= in place of <
NotWarmedUpInclusive(a) == a.Uptime <= warmUpDuration

\* the test of both variants: aq.Uptime < warmUpDuration
NotWarmedUp(a) == a.Uptime < warmUpDuration

\* float64(i), in thousandths
Float64(i) == i * 1000

\* Duration.Seconds(), in thousandths
Seconds(d) == d

\* args.MetricNamespace
ns == "namespace"

Datum(name, value, dimensions, unit) ==
    [MetricName |-> name, Value |-> value, Dimensions |-> dimensions,
     Unit |-> unit, StorageResolution |-> 1]

\* ClampCO that publishes the raw reading
ClampCORaw(a) == Float64(a.COConcentrationPPB)

\* coPPB: float64(aq.COConcentrationPPB), set to 0 when below 0
ClampCO(a) ==
    IF Float64(a.COConcentrationPPB) < 0 THEN 0 ELSE Float64(a.COConcentrationPPB)

\* src/main/main.go, lines 76-119: the batch of a warmed up measurement
CanonicalInput(a) ==
    LET dimensions == <<[Name |-> "SensorSerialNumber", Value |-> a.SensorSerialNumber]>>
    IN  [Namespace |-> ns,
         MetricData |-> <<
            Datum("COConcentrationPPB", ClampCO(a), dimensions, "None"),
            Datum("TemperatureC", Float64(a.TemperatureC), dimensions, "None"),
            Datum("RelativeHumidity", Float64(a.RelativeHumidity), dimensions, "None"),
            Datum("Uptime", Seconds(a.Uptime), dimensions, "Seconds")>>]

\* metricDataInput that builds the full batch whatever sensorWarmedUp is
metricDataInputAlwaysFull(sensorWarmedUp, a) ==
    LET dimensions == <<[Name |-> "SensorID", Value |-> a.SensorSerialNumber]>>
    IN  [Namespace |-> ns,
         MetricData |-> <<
            Datum("COConcentrationPPB", ClampCO(a), dimensions, "None"),
            Datum("TemperatureC", Float64(a.TemperatureC), dimensions, "None"),
            Datum("RelativeHumidity", Float64(a.RelativeHumidity), dimensions, "None"),
            Datum("Uptime", Seconds(a.Uptime), dimensions, "Seconds"),
            Datum("SensorWarmedUp", 1000, dimensions, "None")>>]

\* metricDataInput of the variant with the indicator metric
metricDataInput(sensorWarmedUp, a) ==
    LET dimensions == <<[Name |-> "SensorID", Value |-> a.SensorSerialNumber]>>
    IN  IF sensorWarmedUp
        THEN [Namespace |-> ns,
              MetricData |-> <<
                 Datum("COConcentrationPPB", ClampCO(a), dimensions, "None"),
                 Datum("TemperatureC", Float64(a.TemperatureC), dimensions, "None"),
                 Datum("RelativeHumidity", Float64(a.RelativeHumidity), dimensions, "None"),
                 Datum("Uptime", Seconds(a.Uptime), dimensions, "Seconds"),
                 Datum("SensorWarmedUp", 1000, dimensions, "None")>>]
        ELSE [Namespace |-> ns,
              MetricData |-> <<
                 Datum("Uptime", Seconds(a.Uptime), dimensions, "Seconds"),
                 Datum("SensorWarmedUp", 0, dimensions, "None")>>]

\* ClassifyCanonical without the loggedAboutUptime test: the "skipping" line
\* is written for every measurement below warmUpDuration
ClassifyCanonicalLogsEach ==
    /\ running /\ subPc = "classify" /\ variant = "canonical"
    /\ IF NotWarmedUp(subAq)
       THEN /\ logged' = LogLine("skipping")
            /\ loggedAboutUptime' = TRUE
            /\ subPc' = "recv"
            /\ UNCHANGED params
       ELSE /\ params' = CanonicalInput(subAq)
            /\ subPc' = "put"
            /\ UNCHANGED <<logged, loggedAboutUptime>>
    /\ StayUp
    /\ UNCHANGED <<variant, acqPc, acqVars, subAq, loggedSensorNotWarmedUp,
                   loggedSensorActive, consumed, calls>>

\* ClassifyCanonical with a sticky state: once a warmed up measurement was
\* seen (a batch was submitted), every later one is submitted in full
ClassifyCanonicalSticky ==
    /\ running /\ subPc = "classify" /\ variant = "canonical"
    /\ IF NotWarmedUp(subAq) /\ calls = <<>>
       THEN /\ logged' = (IF loggedAboutUptime THEN logged ELSE LogLine("skipping"))
            /\ loggedAboutUptime' = TRUE
            /\ subPc' = "recv"
            /\ UNCHANGED params
       ELSE /\ params' = CanonicalInput(subAq)
            /\ subPc' = "put"
            /\ UNCHANGED <<logged, loggedAboutUptime>>
    /\ StayUp
    /\ UNCHANGED <<variant, acqPc, acqVars, subAq, loggedSensorNotWarmedUp,
                   loggedSensorActive, consumed, calls>>

\* src/main/main.go, lines 68-119: below warmUpDuration the measurement is
\* skipped (continue), with a log line the first time; else the batch is built
ClassifyCanonical ==
    /\ running /\ subPc = "classify" /\ variant = "canonical"
    /\ IF NotWarmedUp(subAq)
       THEN /\ logged' = (IF loggedAboutUptime THEN logged ELSE LogLine("skipping"))
            /\ loggedAboutUptime' = TRUE
            /\ subPc' = "recv"
            /\ UNCHANGED params
       ELSE /\ params' = CanonicalInput(subAq)
            /\ subPc' = "put"
            /\ UNCHANGED <<logged, loggedAboutUptime>>
    /\ StayUp
    /\ UNCHANGED <<variant, acqPc, acqVars, subAq, loggedSensorNotWarmedUp,
                   loggedSensorActive, consumed, calls>>

\* ClassifyIndicator without the loggedSensorActive test: the "active" line
\* is written for every warmed up measurement
ClassifyIndicatorLogsEach ==
    /\ running /\ subPc = "classify" /\ variant = "indicator"
    /\ IF NotWarmedUp(subAq)
       THEN /\ logged' = (IF loggedSensorNotWarmedUp THEN logged ELSE LogLine("skipping"))
            /\ loggedSensorNotWarmedUp' = TRUE
            /\ params' = metricDataInput(FALSE, subAq)
            /\ UNCHANGED loggedSensorActive
       ELSE /\ logged' = LogLine("active")
            /\ loggedSensorActive' = TRUE
            /\ params' = metricDataInput(TRUE, subAq)
            /\ UNCHANGED loggedSensorNotWarmedUp
    /\ subPc' = "put"
    /\ StayUp
    /\ UNCHANGED <<variant, acqPc, acqVars, subAq, loggedAboutUptime, consumed, calls>>

\* the variant with the indicator metric: each branch logs once and builds
\* its batch
ClassifyIndicator ==
    /\ running /\ subPc = "classify" /\ variant = "indicator"
    /\ IF NotWarmedUp(subAq)
       THEN /\ logged' = (IF loggedSensorNotWarmedUp THEN logged ELSE LogLine("skipping"))
            /\ loggedSensorNotWarmedUp' = TRUE
            /\ params' = metricDataInput(FALSE, subAq)
            /\ UNCHANGED loggedSensorActive
       ELSE /\ logged' = (IF loggedSensorActive THEN logged ELSE LogLine("active"))
            /\ loggedSensorActive' = TRUE
            /\ params' = metricDataInput(TRUE, subAq)
            /\ UNCHANGED loggedSensorNotWarmedUp
    /\ subPc' = "put"
    /\ StayUp
    /\ UNCHANGED <<variant, acqPc, acqVars, subAq, loggedAboutUptime, consumed, calls>>

\* PutMetricData that calls again when the client answered with an error
PutMetricDataRetry ==
    /\ running /\ subPc = "put"
    /\ calls' = Append(calls, [measurement |-> Len(consumed), params |-> params])
    /\ \E failed \in BOOLEAN :
        /\ logged' = (IF failed THEN LogLine("submit") ELSE logged)
        /\ params' = (IF failed /\ Len(calls) < MaxPolls THEN params ELSE NoParams)
        /\ subPc' = (IF failed /\ Len(calls) < MaxPolls THEN "put" ELSE "recv")
    /\ StayUp
    /\ UNCHANGED <<variant, acqPc, acqVars, subAq, loggedAboutUptime,
                   loggedSensorNotWarmedUp, loggedSensorActive, consumed>>

\* cw.PutMetricData and the test of its error: the client answers with
\* success or an error; an error is logged; the loop goes back to its receive
PutMetricData ==
    /\ running /\ subPc = "put"
    /\ calls' = Append(calls, [measurement |-> Len(consumed), params |-> params])
    /\ \E failed \in BOOLEAN :
        logged' = (IF failed THEN LogLine("submit") ELSE logged)
    /\ params' = NoParams
    /\ subPc' = "recv"
    /\ StayUp
    /\ UNCHANGED <<variant, acqPc, acqVars, subAq, loggedAboutUptime,
                   loggedSensorNotWarmedUp, loggedSensorActive, consumed>>

Next ==
    \/ OpenPort
    \/ WriteStimulus
    \/ Settle
    \/ Allocate
    \/ ReadChunk
    \/ Backoff
    \/ ParseReply
    \/ CheckResult
    \/ ChanHandoff
    \/ PollSleep
    \/ ClassifyCanonical
    \/ ClassifyIndicator
    \/ PutMetricData

Spec == Init /\ [][Next]_vars

\* ---------------------------------------------------------------------
\* One poll over the replies the parser can be given

\* texts the sensor may put in a field: readings, and texts that are none
SerialTexts == {<<"A">>, <<"B", "7">>}
COTexts == {<<"-", "5">>, <<"1", "2">>, <<"x">>}
TemperatureTexts == {<<"2", "1">>, <<"1", "2", "8">>}
HumidityTexts == {<<"4", "0">>, <<>>}
UnusedTexts == {<<"x">>, <<"7", " ", "y">>}
DaysTexts == {<<"0">>, <<"1">>, <<"x">>}
HoursTexts == {<<"0">>, <<"1">>, <<"x">>}
MinutesTexts == {<<"3", "0">>, <<"0">>, <<"x">>}
SecondsTexts == {<<"1", "5">>, <<"0">>, <<"y">>}

\* the 11-field replies made of these texts
FieldChoices ==
    {<<sn, co, t, rh, u, u, u, d, h, m, sec>> :
        sn \in SerialTexts, co \in COTexts, t \in TemperatureTexts,
        rh \in HumidityTexts, u \in UnusedTexts, d \in DaysTexts,
        h \in HoursTexts, m \in MinutesTexts, sec \in SecondsTexts}

\* the state of the first poll when its Read loop starts (the port is open,
\* the stimulus written, the settle sleep over, the buffer made), with any
\* of these replies on the wire
InitParse ==
    /\ variant \in Variants
    /\ running = TRUE
    /\ exitCause = "none"
    /\ acqPc = "read"
    /\ polls = 1
    /\ \E f \in FieldChoices : sent = f /\ wire = Reply(f)
    /\ events = <<"write", "settle", "now">>
    /\ byteBuffer = ZeroBuffer
    /\ totalBytesRead = 0
    /\ aq = NoMeasurement
    /\ err = "nil"
    /\ subPc = "recv"
    /\ subAq = NoMeasurement
    /\ params = NoParams
    /\ loggedAboutUptime = FALSE
    /\ loggedSensorNotWarmedUp = FALSE
    /\ loggedSensorActive = FALSE
    /\ parsed = <<>>
    /\ consumed = <<>>
    /\ calls = <<>>
    /\ logged = [skipping |-> 0, active |-> 0, submit |-> 0, io |-> 0,
                 parse |-> 0, fatal |-> 0]

\* the rest of that poll, and what the submission loop does with its result
NextParse ==
    \/ ReadChunk
    \/ Backoff
    \/ ParseReply
    \/ CheckResult
    \/ ChanHandoff
    \/ PollSleep
    \/ ClassifyCanonical
    \/ ClassifyIndicator
    \/ PutMetricData

SpecParse == InitParse /\ [][NextParse]_vars

\* ================================================================== claims

\* the measurements of consumed that the submission loop is done with
Done == IF subPc \in {"classify", "put"} THEN Len(consumed) - 1 ELSE Len(consumed)

\* ------------------------------------------------------------------- C1

\* C1, as stated: while the submission task is busy in the external submit
\* call, a send of the acquisition loop can complete (it does not wait for the
\* submission task).
C1_SendNeverWaits == (acqPc = "send" /\ subPc = "put") => ENABLED ChanHandoff

\* C1, amended: the handoff is a rendezvous.  A send completes only in a step
\* in which the submission loop is at its receive and takes the measurement,
\* so while the submission loop is in the submit call the send waits; nothing
\* is queued: at most one parsed measurement is not yet received.
C1_SendIsRendezvous ==
    /\ [](Len(parsed) - Len(consumed) \in {0, 1})
    /\ [][(acqPc = "send" /\ acqPc' # "send")
            => /\ subPc = "recv"
               /\ subPc' = "classify"
               /\ subAq' = aq
               /\ consumed' = Append(consumed, aq)]_vars

\* the acquisition loop waits at its send while the submit call is under way
C1_Witness == acqPc = "send" /\ subPc = "put" /\ ~ENABLED ChanHandoff

\* ------------------------------------------------------------------- C2

\* C2: the measurements received by the submission loop are a prefix of the
\* measurements parsed, in the same order; the submit calls are made for
\* received measurements in increasing order, at most one call each, and the
\* batch of a call carries the serial number and the uptime of its measurement
\* and of no other.
C2_SubmittedInParseOrder ==
    /\ Len(consumed) <= Len(parsed)
    /\ consumed = SubSeq(parsed, 1, Len(consumed))
    /\ \A k \in 1..Len(calls) :
        /\ calls[k].measurement \in 1..Len(consumed)
        /\ k > 1 => calls[k - 1].measurement < calls[k].measurement
        /\ LET m == consumed[calls[k].measurement]
               data == calls[k].params.MetricData
           IN  \A i \in 1..Len(data) :
                /\ data[i].Dimensions[1].Value = m.SensorSerialNumber
                /\ data[i].MetricName = "Uptime" => data[i].Value = Seconds(m.Uptime)

\* two different measurements went through, each with its own submit call
C2_Witness ==
    /\ Len(consumed) >= 2
    /\ consumed[1] # consumed[2]
    /\ Len(calls) >= 2
    /\ calls[1].measurement = 1
    /\ calls[2].measurement = 2

\* ------------------------------------------------------------------- C3

\* C3, as stated: once AnalyzeAirQuality has returned a serial write or read
\* error (main has logged it), the acquisition loop makes no further poll.
C3_NoPollAfterIOError ==
    logged.io > 0 => acqPc \notin {"settle", "alloc", "read", "backoff", "parse"}

\* C3, amended: a serial write or read error is not fatal.  main logs it and
\* goes on to its sleep and the next poll, and the submission loop is left as
\* it is; the process exits only when the port cannot be opened at startup
\* (logger.Fatal) or on a runtime panic inside AnalyzeAirQuality.
C3_IOErrorIsLoggedAndSkipped ==
    /\ [](~running => \/ (exitCause = "fatal" /\ acqPc = "open")
                      \/ (exitCause = "panic" /\ acqPc \in {"read", "parse"}))
    /\ [][(acqPc = "ret" /\ err \in IOErrors /\ acqPc' # "ret")
            => /\ running'
               /\ acqPc' = "sleep"
               /\ logged' = [logged EXCEPT !.io = @ + 1]
               /\ subPc' = subPc]_vars

\* a measurement is parsed in a poll made after a serial error was returned
C3_Witness == logged.io > 0 /\ acqPc = "send" /\ running

\* ------------------------------------------------------------------- C4

\* C4, as stated: a buffer that splits into fewer than 11 fields makes the
\* parser return one of its parse errors, and the process never ends in a
\* panic raised by the parser.
C4_ShortLineIsParseError ==
    /\ (acqPc = "parse" /\ Len(Split(byteBuffer)) < 11)
            => (ParseBuffer(byteBuffer).kind = "err"
                /\ ParseBuffer(byteBuffer).err \in ParseErrors)
    /\ ~(exitCause = "panic" /\ acqPc = "parse")

\* ------------------------------------------------------------------- C5

\* the measurements of consumed that have been classified
Classified == IF subPc = "classify" THEN Len(consumed) - 1 ELSE Len(consumed)

NameSet(p) == {p.MetricData[i].MetricName : i \in 1..Len(p.MetricData)}

\* the submit calls made for the i-th measurement received
CallsFor(i) == {k \in 1..Len(calls) : calls[k].measurement = i}

FullNames == {"COConcentrationPPB", "TemperatureC", "RelativeHumidity", "Uptime"}

\* C5, as stated: for every measurement the submission loop is done with, a
\* batch was submitted; it holds only the uptime metric when the measurement
\* is not warmed up, and exactly CO, temperature, humidity and uptime when it
\* is; every data point has the serial number as its one dimension value.
C5_BatchPerClassification ==
    \A i \in 1..Done :
        \E k \in CallsFor(i) :
            LET m == consumed[i]
                p == calls[k].params
            IN  /\ NameSet(p) = (IF NotWarmedUp(m) THEN {"Uptime"} ELSE FullNames)
                /\ \A j \in 1..Len(p.MetricData) :
                    /\ p.MetricData[j].Dimensions[1].Value = m.SensorSerialNumber
                    /\ p.MetricData[j].Dimensions[1].Name = p.MetricData[1].Dimensions[1].Name

\* C5, amended: the batch is determined by the classification and by the
\* variant.  src/main/main.go makes no submit call for a measurement that is
\* not warmed up, and submits exactly CO, temperature, humidity and uptime for
\* one that is, under the dimension key SensorSerialNumber.  The variant with
\* the indicator metric submits uptime and SensorWarmedUp = 0 for a measurement
\* that is not warmed up, and the four metrics and SensorWarmedUp = 1 for one
\* that is, under the dimension key SensorID.  In both, each data point has
\* one dimension, the measurement's serial number under that key.
C5_BatchPerClassificationAndVariant ==
    \A i \in 1..Done :
        LET m == consumed[i]
            key == IF variant = "canonical" THEN "SensorSerialNumber" ELSE "SensorID"
            names == IF variant = "canonical" THEN FullNames
                     ELSE IF NotWarmedUp(m) THEN {"Uptime", "SensorWarmedUp"}
                     ELSE FullNames \cup {"SensorWarmedUp"}
        IN  IF variant = "canonical" /\ NotWarmedUp(m)
            THEN CallsFor(i) = {}
            ELSE /\ Cardinality(CallsFor(i)) = 1
                 /\ \A k \in CallsFor(i) :
                     LET data == calls[k].params.MetricData
                     IN  /\ NameSet(calls[k].params) = names
                         /\ Len(data) = Cardinality(names)
                         /\ \A j \in 1..Len(data) :
                             /\ data[j].Dimensions =
                                    <<[Name |-> key, Value |-> m.SensorSerialNumber]>>
                             /\ data[j].MetricName = "SensorWarmedUp"
                                    => data[j].Value = (IF NotWarmedUp(m) THEN 0 ELSE 1000)

\* the variant with the indicator metric has submitted a batch of each kind
C5_Witness ==
    /\ variant = "indicator"
    /\ \E i, j \in 1..Done :
        /\ NotWarmedUp(consumed[i]) /\ CallsFor(i) # {}
        /\ ~NotWarmedUp(consumed[j]) /\ CallsFor(j) # {}

\* ------------------------------------------------------------------- C6

\* 2 hours, in milliseconds
TwoHours == 2 * 60 * 60 * 1000

HasCO(p) == "COConcentrationPPB" \in NameSet(p)

\* the i-th measurement received was submitted as a warmed up one
WarmCall(i) == \E k \in CallsFor(i) : HasCO(calls[k].params)

\* C6: the step that classifies a measurement treats it as not warmed up (no
\* batch in src/main/main.go, a batch without CO in the other variant) when
\* its uptime is below 2 hours, and as warmed up (a batch with CO) when its
\* uptime is 2 hours or more, whatever its other fields and whatever came
\* before.
C6_ClassifiedByUptimeAlone ==
    [][(subPc = "classify" /\ subPc' # "classify")
        => IF subAq.Uptime < TwoHours
           THEN IF variant = "canonical"
                THEN subPc' = "recv" /\ params' = NoParams
                ELSE subPc' = "put" /\ ~HasCO(params')
           ELSE subPc' = "put" /\ HasCO(params')]_vars

\* an uptime of exactly 2 hours was submitted as warmed up, and one of
\* 1h59m59s was not
C6_Witness ==
    \E i, j \in 1..Done :
        /\ consumed[i].Uptime = TwoHours /\ WarmCall(i)
        /\ consumed[j].Uptime = TwoHours - 1000 /\ ~WarmCall(j)

\* ------------------------------------------------------------------- C7

\* seq is one or more measurements that are not warmed up followed by one or
\* more that are
ColdThenWarm(seq) ==
    \E n \in 1..(Len(seq) - 1) :
        \A i \in 1..Len(seq) : NotWarmedUp(seq[i]) <=> i <= n

\* C7, as stated: when the submission loop has processed N >= 1 measurements
\* that are not warmed up followed by M >= 1 that are, one state log line was
\* written in total.
C7_OneLogLineInTotal ==
    (subPc = "recv" /\ ColdThenWarm(consumed)) => logged.skipping + logged.active = 1

\* C7, amended: neither state log line is written once per batch.  The
\* "skipping" line has been written once when a measurement that is not warmed
\* up has been classified, and never otherwise; the "active" line exists in
\* the variant with the indicator metric only, written once when a warmed up
\* measurement has been classified.  So N >= 1 measurements that are not
\* warmed up followed by M >= 1 that are leave one line in src/main/main.go
\* and two in the other variant.
C7_EachLogLineOnce ==
    LET anyCold == \E i \in 1..Classified : NotWarmedUp(consumed[i])
        anyWarm == \E i \in 1..Classified : ~NotWarmedUp(consumed[i])
    IN  /\ logged.skipping = (IF anyCold THEN 1 ELSE 0)
        /\ logged.active = (IF variant = "indicator" /\ anyWarm THEN 1 ELSE 0)

\* two measurements that are not warmed up, then one that is, all processed
C7_Witness ==
    /\ subPc = "recv"
    /\ Len(consumed) >= 3
    /\ ColdThenWarm(consumed)
    /\ NotWarmedUp(consumed[2])

\* ------------------------------------------------------------------- C8

\* C8, as stated: each state log line is written at most once, and once a
\* warmed up measurement has been classified the "active" line has been
\* written exactly once.
C8_ActiveLineOnFirstWarm ==
    /\ logged.skipping <= 1
    /\ logged.active <= 1
    /\ (\E i \in 1..Classified : ~NotWarmedUp(consumed[i])) => logged.active = 1

\* C8, amended: a step writes the "skipping" line exactly when it classifies
\* the first measurement of the run that is not warmed up; a step writes the
\* "active" line exactly when, in the variant with the indicator metric, it
\* classifies the first warmed up measurement of the run.  src/main/main.go
\* writes no line for a warmed up measurement.
C8_LogLineOnFirstOfKind ==
    [][LET classifies == subPc = "classify" /\ subPc' # "classify"
           earlier == 1..(Len(consumed) - 1)
           firstCold == /\ classifies
                        /\ NotWarmedUp(subAq)
                        /\ \A i \in earlier : ~NotWarmedUp(consumed[i])
           firstWarm == /\ classifies
                        /\ ~NotWarmedUp(subAq)
                        /\ \A i \in earlier : NotWarmedUp(consumed[i])
       IN  /\ logged'.skipping = logged.skipping + (IF firstCold THEN 1 ELSE 0)
           /\ logged'.active =
                logged.active + (IF firstWarm /\ variant = "indicator" THEN 1 ELSE 0)]_vars

\* two warmed up measurements classified in the variant with the indicator
\* metric, and one "active" line
C8_Witness ==
    /\ variant = "indicator"
    /\ logged.active = 1
    /\ \E i, j \in 1..Classified :
        i < j /\ ~NotWarmedUp(consumed[i]) /\ ~NotWarmedUp(consumed[j])

\* ------------------------------------------------------------------- C9

\* C9, as stated: once a measurement was submitted as warmed up, every later
\* measurement the submission loop is done with was submitted as warmed up.
C9_WarmIsSticky ==
    \A i, j \in 1..Done : (i < j /\ WarmCall(i)) => WarmCall(j)

\* C9, amended: the treatment is not monotonic.  A measurement with an uptime
\* below 2 hours is treated as not warmed up also when a warmed up measurement
\* came before it; what is monotonic is the logged-once flags, which stay set
\* once set.
C9_OnlyTheFlagsAreSticky ==
    [][/\ loggedAboutUptime => loggedAboutUptime'
       /\ loggedSensorNotWarmedUp => loggedSensorNotWarmedUp'
       /\ loggedSensorActive => loggedSensorActive'
       /\ (/\ subPc = "classify" /\ subPc' # "classify"
           /\ subAq.Uptime < TwoHours
           /\ \E i \in 1..(Len(consumed) - 1) : consumed[i].Uptime >= TwoHours)
            => IF variant = "canonical" THEN subPc' = "recv" ELSE ~HasCO(params')]_vars

\* a warmed up measurement was submitted in full, and a later one below 2
\* hours was not
C9_Witness ==
    \E i, j \in 1..Done :
        /\ i < j
        /\ WarmCall(i)
        /\ NotWarmedUp(consumed[j])
        /\ ~WarmCall(j)

\* ------------------------------------------------------------------ C10

\* C10: a submit call that fails (its error is logged) leaves the process
\* running and the acquisition loop where it was, and sends the submission
\* loop to its receive; the call was the only one for its measurement, which
\* is the last one received.
C10_SubmitErrorIsSwallowed ==
    [][logged'.submit > logged.submit
        => /\ running'
           /\ subPc' = "recv"
           /\ acqPc' = acqPc
           /\ Len(calls') = Len(calls) + 1
           /\ calls'[Len(calls')].measurement = Len(consumed)
           /\ \A k \in 1..Len(calls) : calls[k].measurement < Len(consumed)]_vars

\* every submit call failed, and two measurements were submitted
C10_Witness ==
    /\ Len(calls) >= 2
    /\ logged.submit = Len(calls)
    /\ calls[1].measurement < calls[2].measurement

\* ------------------------------------------------------------------ C11

\* C11: a reply with a field that does not parse costs that one poll only.
\* AnalyzeAirQuality returns a parse error and no measurement; main logs the
\* error, sends nothing into the channel, leaves the submission loop alone
\* and goes on to its sleep and the next poll; what is sent into the channel
\* is always the measurement parsed in the same poll, so a well-formed reply
\* that follows is parsed and handed over as if the bad one had not come.
C11_ParseErrorCostsOnePoll ==
    /\ [](err \in ParseErrors => aq = NoMeasurement /\ acqPc \in {"ret", "sleep", "write"})
    /\ [](acqPc = "send" => /\ err = "nil"
                            /\ Len(parsed) > 0
                            /\ aq = parsed[Len(parsed)])
    /\ [][(acqPc = "ret" /\ err \in ParseErrors /\ (acqPc' # "ret" \/ ~running'))
            => /\ running'
               /\ acqPc' = "sleep"
               /\ logged' = [logged EXCEPT !.parse = @ + 1]
               /\ consumed' = consumed
               /\ parsed' = parsed
               /\ subPc' = subPc]_vars
    /\ [][(acqPc = "sleep" /\ acqPc' # "sleep") => running' /\ acqPc' = "write"]_vars
    /\ [][(acqPc = "send" /\ acqPc' # "send" /\ running')
            => consumed' = Append(consumed, aq)]_vars

\* a parse error was logged, and the measurement of a later poll was parsed
\* and has been handed over to the submission loop
C11_Witness ==
    /\ logged.parse > 0
    /\ acqPc = "sleep"
    /\ aq # NoMeasurement
    /\ Len(consumed) > 0
    /\ consumed[Len(consumed)] = aq

\* ------------------------------------------------------------------ C12

\* the data point of the CO metric in a batch
CODatum(p) ==
    p.MetricData[CHOOSE i \in 1..Len(p.MetricData) :
                    p.MetricData[i].MetricName = "COConcentrationPPB"]

\* max(0, c) as a float64, in thousandths
PublishedCO(c) == IF c < 0 THEN 0 ELSE 1000 * c

\* C12: the CO value of every batch submitted for a warmed up measurement is
\* max(0, co_concentration_ppb) of that measurement, and building and
\* submitting the batch leave the measurement as it was received: a negative
\* reading is still negative in the record afterwards.
C12_ClampedInBatchOnly ==
    /\ [](\A k \in 1..Len(calls) :
            HasCO(calls[k].params)
            => CODatum(calls[k].params).Value
                 = PublishedCO(consumed[calls[k].measurement].COConcentrationPPB))
    /\ [](Len(consumed) > 0 => subAq = consumed[Len(consumed)])
    /\ [][(subPc \in {"classify", "put"}) => (subAq' = subAq)]_vars

\* a negative reading was published as 0 and a positive one as it is, and
\* the record last received still holds its negative reading
C12_Witness ==
    /\ subPc = "recv"
    /\ Len(consumed) > 0
    /\ subAq.COConcentrationPPB < 0
    /\ \E k \in 1..Len(calls) :
        /\ calls[k].measurement = Len(consumed)
        /\ HasCO(calls[k].params)
        /\ CODatum(calls[k].params).Value = 0
    /\ \E k \in 1..Len(calls) :
        /\ HasCO(calls[k].params)
        /\ CODatum(calls[k].params).Value > 0

\* ------------------------------------------------------------------ C13

\* the texts that are readings, with the number each one writes
Readings ==
    {<<<<"-", "5">>, -5>>, <<<<"1", "2">>, 12>>, <<<<"2", "1">>, 21>>,
     <<<<"4", "0">>, 40>>, <<<<"3", "0">>, 30>>, <<<<"1", "5">>, 15>>,
     <<<<"0">>, 0>>, <<<<"1">>, 1>>}

IsReading(t) == \E p \in Readings : p[1] = t

ReadingOf(t) == (CHOOSE p \in Readings : p[1] = t)[2]

\* the positions in a reply (from 1) of CO, temperature, humidity, days,
\* hours, minutes and seconds: the order of the positions is the order in
\* which AnalyzeAirQuality converts them
UsedFields == {2, 3, 4, 8, 9, 10, 11}

BadFields(f) == {i \in UsedFields : ~IsReading(f[i])}

FirstBad(f) == CHOOSE i \in BadFields(f) : \A j \in BadFields(f) : i <= j

\* the read buffer after the reply with fields f was read in one chunk
BufOf(f) ==
    [i \in 1..BufSize |-> IF i <= Len(Reply(f)) THEN Reply(f)[i] ELSE NUL]

\* the reply f with a reading in every used field but field j
OnlyBad(f, j) ==
    [i \in 1..11 |-> IF i = j THEN <<"x">>
                     ELSE IF i \in UsedFields THEN <<"0">> ELSE f[i]]

\* the error AnalyzeAirQuality returns when field j alone is no reading
ErrorWhenOnly(f, j) == ParseBuffer(BufOf(OnlyBad(f, j))).err

\* C13, as stated: when AnalyzeAirQuality returns from a reply some of whose
\* used fields are no readings, it returns the parse error of the first such
\* field (in the order CO, temperature, humidity, days, hours, minutes,
\* seconds), and that error is none of the errors that another field alone
\* produces.
C13_OneErrorPerField ==
    (acqPc = "ret" /\ sent \in FieldChoices /\ BadFields(sent) # {})
    => /\ err \in ParseErrors
       /\ err = ErrorWhenOnly(sent, FirstBad(sent))
       /\ \A j \in UsedFields \ {FirstBad(sent)} : err # ErrorWhenOnly(sent, j)

\* the error of each conversion; minutes and seconds have no conversion of
\* their own, they fail in time.ParseDuration
ErrorOf(i) ==
    CASE i = 2 -> ErrCO
      [] i = 3 -> ErrTemperature
      [] i = 4 -> ErrHumidity
      [] i = 8 -> ErrDaysUp
      [] i = 9 -> ErrHoursUp
      [] i \in {10, 11} -> ErrDuration

\* C13, amended: CO, temperature, humidity, days and hours each have a parse
\* error of their own, all different; minutes and seconds share the one
\* error of the duration string, which is different from those five.  When
\* some used fields are no readings AnalyzeAirQuality returns, with no
\* measurement, the error of the first of them in the order CO, temperature,
\* humidity, days, hours, duration (minutes or seconds).
C13_FirstErrorInOrder ==
    /\ Cardinality({ErrCO, ErrTemperature, ErrHumidity, ErrDaysUp, ErrHoursUp,
                     ErrDuration}) = 6
    /\ (acqPc = "ret" /\ sent \in FieldChoices /\ BadFields(sent) # {})
       => /\ err = ErrorOf(FirstBad(sent))
          /\ aq = NoMeasurement

\* AnalyzeAirQuality has returned the duration error from a reply whose
\* minutes and seconds are both no readings
C13_Witness ==
    /\ acqPc = "ret"
    /\ sent \in FieldChoices
    /\ BadFields(sent) = {10, 11}
    /\ err = ErrDuration

\* ------------------------------------------------------------------ C14

\* the measurement the reply with fields f stands for
Expected(f) ==
    [SensorSerialNumber |-> f[1],
     COConcentrationPPB |-> ReadingOf(f[2]),
     TemperatureC |-> ReadingOf(f[3]),
     RelativeHumidity |-> ReadingOf(f[4]),
     Uptime |-> 1000 * ((ReadingOf(f[8]) * 24 + ReadingOf(f[9])) * 3600
                          + ReadingOf(f[10]) * 60 + ReadingOf(f[11]))]

\* C14: from an 11-field reply with a reading in every used field
\* AnalyzeAirQuality returns no error and the measurement whose serial
\* number, CO, temperature and humidity are fields 0 to 3 and whose uptime
\* is (days * 24 + hours) hours, minutes minutes and seconds seconds,
\* whatever fields 4 to 6 hold.
C14_WellFormedReplyParses ==
    (acqPc = "ret" /\ sent \in FieldChoices /\ BadFields(sent) = {})
    => /\ err = "nil"
       /\ aq = Expected(sent)

\* days = 1, hours = 0, minutes = 30, seconds = 15 gave 88215 seconds, with
\* fields 4 to 6 that are no numbers
C14_Witness ==
    /\ acqPc = "ret"
    /\ sent \in FieldChoices
    /\ sent[8] = <<"1">> /\ sent[9] = <<"0">>
    /\ sent[10] = <<"3", "0">> /\ sent[11] = <<"1", "5">>
    /\ sent[5] = <<"7", " ", "y">>
    /\ aq # NoMeasurement
    /\ aq.Uptime = 88215 * 1000
    /\ aq.SensorSerialNumber = sent[1]

\* ------------------------------------------------------------------ C15

\* the Read loop is between two Reads, or has just left for the parser
InReadLoop == running /\ acqPc \in {"backoff", "parse"} /\ Len(sent) > 0

\* the bytes the Reads of this poll have returned so far, in arrival order
Received == SubSeq(Reply(sent), 1, totalBytesRead)

\* C15, as stated: after every Read of a poll the first totalBytesRead bytes
\* of the buffer are the bytes of all chunks received so far, in arrival
\* order, and the loop leaves for the parser exactly when the last byte
\* received is the line feed.
C15_ChunksAreConcatenated ==
    (InReadLoop /\ totalBytesRead <= BufSize)
    => /\ \A i \in 1..totalBytesRead : byteBuffer[i] = Received[i]
       /\ totalBytesRead > 0
            => (acqPc = "parse" <=> Received[totalBytesRead] = LF)

\* ------------------------------------------------------------------ C16

\* C16, as stated: once every byte of a reply of at most 256 bytes that ends
\* in a line feed has been returned by the Reads of the poll, in however
\* many chunks and with however many zero-byte Reads in between, the loop has
\* left for the parser with that line in the buffer; and a Read that has
\* returned no byte leaves the loop running.
C16_LoopExitsOnTerminator ==
    /\ (InReadLoop /\ Len(Reply(sent)) <= BufSize
            /\ totalBytesRead = Len(Reply(sent)))
       => /\ acqPc = "parse"
          /\ \A i \in 1..totalBytesRead : byteBuffer[i] = Reply(sent)[i]
    /\ (InReadLoop /\ totalBytesRead = 0) => acqPc = "backoff"

\* ------------------------------------------------------------------ C17

\* C17, as stated: whatever the Reads return, the test of the last byte
\* indexes the buffer within its 256 bytes; no poll ends the process with an
\* index out of range in the Read loop.
C17_ReadLoopStaysInBounds ==
    /\ acqPc \in {"backoff", "parse"} => totalBytesRead <= BufSize
    /\ ~(exitCause = "panic" /\ acqPc = "read")

\* ------------------------------------------------------------------ C18

IsPrefix(a, b) == Len(a) <= Len(b) /\ a = SubSeq(b, 1, Len(a))

\* C18, as stated: what a poll does up to its first Read is, in this order,
\* the stimulus write, the capture of measurement_time, the settle delay,
\* the first Read.
C18_TimeTakenBeforeSettle ==
    IsPrefix(events, <<"write", "now", "settle", "read">>)

\* C18, amended: what a poll does up to its first Read is, in this order,
\* the stimulus write, the settle delay, the capture of measurement_time,
\* the first Read: time.Now() is called after the settle sleep has returned
\* and before any byte is read.
C18_TimeTakenAfterSettle ==
    /\ IsPrefix(events, <<"write", "settle", "now", "read">>)
    /\ (running /\ acqPc \in {"backoff", "parse"})
            => events = <<"write", "settle", "now", "read">>

\* a whole reply has been read: the poll has written, slept, taken the
\* time and read
C18_Witness ==
    /\ acqPc = "parse"
    /\ events = <<"write", "settle", "now", "read">>

====
